---- MODULE Spec2Model ----
(***************************************************************************)
(* A model of utils/combine-sheets.js: the consolidation run that reads    *)
(* every .xlsx file of ./spreadsheets/, writes master-list.xlsx, detects   *)
(* and removes duplicate violation records and writes work-list.xlsx; and  *)
(* of the collection suites tests/*.test.ts that write the result files.   *)
(*                                                                         *)
(* Array positions are 0-based as in the JavaScript source; the element at *)
(* position i of a JavaScript array a is a[i + 1] of the TLA+ sequence.    *)
(***************************************************************************)
EXTENDS Integers, Sequences, FiniteSets, TLC

VARIABLES
    dir,              \* the directory ./spreadsheets/: entry name -> file
    pc,               \* position of the run in the script
    files,            \* the enumeration handed to the fs.readdir callback
    index,            \* index of the files.forEach iteration
    lastIndex,        \* the callback's lastIndex: a number, then true
    sheetData,        \* the module-level array of violation records
    masterWritten,    \* this run executed XLSX.writeFile(wb, master-list)
    workWritten,      \* this run executed XLSX.writeFile(finalBook, work-list)
    indicesToDelete,  \* positions pushed by the detection loops
    outerIndex,       \* index of the outer sheetData.forEach iteration
    uniqueArray,      \* indicesToDelete without repeated positions
    spliceIndex,      \* index of the uniqueArray.forEach iteration
    completion,       \* the figures of the completion messages logged
    suite,            \* the collection suite that is run
    worker,           \* the worker process that runs the current test
    modules,          \* worker -> the module-level variables of the test file
    visit,            \* the current test: slug, project and scan result
    slug,             \* the loop variable slug as the test body sees it
    vIndex,           \* index of the violations forEach iteration
    testSheetData,    \* the sheetData local to the test body (tfg)
    tpc,              \* position of the worker in the test body
    written,          \* the successful XLSX.writeFile calls of the suite
    writeFailed,      \* an XLSX.writeFile call of the current test threw
    outcome,          \* how the last test ended
    visitNo,          \* number of tests started
    startupPrints     \* number of times the startup information was logged

mergeVars == <<dir, pc, files, index, lastIndex, sheetData, masterWritten,
               workWritten, indicesToDelete, outerIndex, uniqueArray,
               spliceIndex, completion>>

testVars == <<suite, worker, modules, visit, slug, vIndex, testSheetData,
              tpc, written, writeFailed, outcome, visitNo, startupPrints>>

vars == <<mergeVars, testVars>>

---------------------------------------------------------------------------
(* Bounds of the model. *)

MaxLen == 5        \* records of the result files of SpecDedup
MaxMalformed == 3  \* records of the result files of SpecMalformed
MaxRows == 1       \* records of one per-page result file of Spec
MaxLoad == 6       \* records a directory may hold for the script to be run again
MaxViolations == 2 \* violations of one scan result
MaxVisits == 2     \* tests of one run of a collection suite

---------------------------------------------------------------------------
(* Violation records.  A record is a JavaScript object: a function from    *)
(* the keys it has to their values.  "page" stands for the nine fields the *)
(* script never reads; target and failureSummary are the ones it compares. *)

Undefined == "undefined"      \* the value of a property the object lacks
EmptyCell == "blank"          \* a cell of a sheet that holds no value

Targets == {"t1", "t2"}
Summaries == {"s1"}
Fields == {"page", "target", "failureSummary"}

Get(r, f) == IF f \in DOMAIN r THEN r[f] ELSE Undefined

MkRecord(p, t, s) ==
    LET full == [page |-> p, target |-> t, failureSummary |-> s]
        keys == {f \in Fields : full[f] # Undefined}
    IN  [f \in keys |-> full[f]]

(* The (target, failureSummary) pairs of the records a collection run      *)
(* writes: the scan engine may leave out the failureSummary of a node.     *)
Keys == Targets \X (Summaries \cup {Undefined})

(* The pairs of records that may lack the target as well.                  *)
MalformedKeys == (Targets \cup {Undefined}) \X (Summaries \cup {Undefined})

(* The rows of the result file of one page: every row carries the page. *)
PageRows(p, keys) == [i \in 1..Len(keys) |-> MkRecord(p, keys[i][1], keys[i][2])]

(* The three records of the example of the de-duplication contract.        *)
RunRecords ==
    {MkRecord("p1", "t1", "s1"), MkRecord("p2", "t1", "s1"),
     MkRecord("p2", "t2", "s1")}

SeqsUpTo(S, n) == UNION {[1..k -> S] : k \in 0..n}

---------------------------------------------------------------------------
(* The spreadsheet codec (the xlsx package), as the script uses it.        *)

(* XLSX.utils.json_to_sheet: one column per key that occurs in the data,   *)
(* one row per object; an object without a key leaves that cell empty.     *)
json_to_sheet(data) ==
    LET hdr == UNION {DOMAIN data[i] : i \in 1..Len(data)}
    IN  [header |-> hdr,
         rows |-> [i \in 1..Len(data) |->
                     [c \in hdr |-> IF c \in DOMAIN data[i]
                                    THEN data[i][c] ELSE EmptyCell]]]

RECURSIVE RowsToJson(_, _)
RowsToJson(hdr, rows) ==
    IF rows = <<>> THEN <<>>
    ELSE LET row  == Head(rows)
             keys == {c \in hdr : row[c] # EmptyCell}
         IN  (IF keys = {} THEN <<>> ELSE <<[c \in keys |-> row[c]]>>)
             \o RowsToJson(hdr, Tail(rows))

(* XLSX.utils.sheet_to_json: one object per row that has a value, with the *)
(* keys of the cells that hold one.                                        *)
sheet_to_json(sheet) == RowsToJson(sheet.header, sheet.rows)

---------------------------------------------------------------------------
(* The directory.  A name is a base and an extension; path.extname gives   *)
(* the extension.                                                          *)

Name(b, e) == [base |-> b, ext |-> e]
PageFileA == Name("a", ".xlsx")
PageFileB == Name("b", ".xlsx")
OtherFile == Name("notes", ".txt")
MasterList == Name("master-list", ".xlsx")
WorkList == Name("work-list", ".xlsx")
Names == {PageFileA, PageFileB, OtherFile, MasterList, WorkList}

extname(file) == file.ext

NoFile == [exists |-> FALSE, readable |-> FALSE, sheet |-> json_to_sheet(<<>>)]
File(data, ok) == [exists |-> TRUE, readable |-> ok, sheet |-> json_to_sheet(data)]

Entries(d) == {n \in Names : d[n].exists}

(* fs.readdir hands over the entries in an order the platform chooses.     *)
Enumerations(d) ==
    LET S == Entries(d)
        k == Cardinality(S)
    IN  {f \in [1..k -> S] : \A i, j \in 1..k : i # j => f[i] # f[j]}

---------------------------------------------------------------------------
(* The callback's lastIndex holds a number until the forEach reaches the   *)
(* last entry, and the boolean true from then on.                          *)

NumberValue(n) == [type |-> "number", value |-> n]
TrueValue == [type |-> "boolean", value |-> 1]

(* a === b for a value a of either type and a number b *)
StrictEqualsNumber(a, n) == a.type = "number" /\ a.value = n

---------------------------------------------------------------------------
(* Stage 2: duplicate detection.                                           *)

At(arr, i) == arr[i + 1]

(* A guard that compares an element with its successor only. *)
ComesNext(innerIndex, outerIdx) == innerIndex = outerIdx + 1

(* A guard that lets an element be compared with itself. *)
ComesAfterOrSame(innerIndex, outerIdx) == innerIndex >= outerIdx

(* The forward-only guard of the inner loop. *)
ComesAfter(innerIndex, outerIdx) == innerIndex > outerIdx

(* A comparison of the target alone. *)
SameTargetOnly(outerElement, innerElement) ==
    Get(outerElement, "target") = Get(innerElement, "target")

(* A comparison in which a missing property equals nothing. *)
SameViolationPresent(outerElement, innerElement) ==
    /\ {"target", "failureSummary"} \subseteq
           (DOMAIN outerElement \cap DOMAIN innerElement)
    /\ outerElement.target = innerElement.target
    /\ outerElement.failureSummary = innerElement.failureSummary

(* The two nested comparisons of the inner loop; a missing property reads  *)
(* as undefined, and undefined === undefined.                              *)
SameViolation(outerElement, innerElement) ==
    /\ Get(outerElement, "target") = Get(innerElement, "target")
    /\ Get(outerElement, "failureSummary") = Get(innerElement, "failureSummary")

(* The inner sheetData.forEach for one outer element, from innerIndex on:  *)
(* the positions it pushes, in the order it pushes them.                   *)
RECURSIVE InnerLoop(_, _, _)
InnerLoop(data, outerIdx, innerIndex) ==
    IF innerIndex >= Len(data) THEN <<>>
    ELSE (IF /\ ComesAfter(innerIndex, outerIdx)
             /\ SameViolation(At(data, outerIdx), At(data, innerIndex))
          THEN <<innerIndex>> ELSE <<>>)
         \o InnerLoop(data, outerIdx, innerIndex + 1)

---------------------------------------------------------------------------
(* Stage 3: removal.                                                       *)

(* A filter that keeps every element. *)
KeepAll(arr, seen) == arr

(* indicesToDelete.filter with the seen set: the first occurrence of each  *)
(* position, in order.                                                     *)
RECURSIVE FilterSeen(_, _)
FilterSeen(arr, seen) ==
    IF arr = <<>> THEN <<>>
    ELSE IF Head(arr) \in seen THEN FilterSeen(Tail(arr), seen)
    ELSE <<Head(arr)>> \o FilterSeen(Tail(arr), seen \cup {Head(arr)})

(* The comparator (a, b) => a - b of an ascending sort. *)
CompareAscending(a, b) == a - b

(* The comparator (a, b) => b - a. *)
Compare(a, b) == b - a

RECURSIVE Insert(_, _)
Insert(x, sorted) ==
    IF sorted = <<>> THEN <<x>>
    ELSE IF Compare(x, Head(sorted)) <= 0 THEN <<x>> \o sorted
    ELSE <<Head(sorted)>> \o Insert(x, Tail(sorted))

(* No sort at all: the array as it is. *)
Unsorted(arr) == arr

(* Array.prototype.sort with that comparator. *)
RECURSIVE Sort(_)
Sort(arr) == IF arr = <<>> THEN <<>> ELSE Insert(Head(arr), Sort(Tail(arr)))

(* arr.splice(start, 1): the array without the element at position start;  *)
(* a start past the end removes nothing.                                   *)
Splice(arr, start) ==
    IF start >= Len(arr) THEN arr
    ELSE SubSeq(arr, 1, start) \o SubSeq(arr, start + 2, Len(arr))

---------------------------------------------------------------------------
(* The collection suites tests/tfg.test.ts, tests/ada.test.ts and          *)
(* tests/at-scale.test.ts.  Each makes one test per slug; a test visits    *)
(* the page, scans it, flattens the violations into rows, writes a result  *)
(* file and asserts that there was no violation.                           *)
(*                                                                         *)
(* A string the suites take apart (a slug, a project name, a tag, a        *)
(* selector) is the sequence of its characters; a string they only copy is *)
(* a TLA+ string.                                                          *)

LowerCase ==
    {"a", "b", "c", "d", "e", "f", "g", "h", "i", "j", "k", "l", "m", "n",
     "o", "p", "q", "r", "s", "t", "u", "v", "w", "x", "y", "z"}

UpperCase ==
    {"A", "B", "C", "D", "E", "F", "G", "H", "I", "J", "K", "L", "M", "N",
     "O", "P", "Q", "R", "S", "T", "U", "V", "W", "X", "Y", "Z"}

Digits ==
    {"0", "1", "2", "3", "4", "5", "6", "7", "8", "9"}

(* What /[^a-z0-9]/gi leaves alone; what /\s/ matches. *)
WordChars == LowerCase \cup UpperCase \cup Digits
Whitespace == {" "}

(* slug.replace(/[^a-z0-9]/gi, '_') *)
Sanitize(s) == [i \in 1..Len(s) |-> IF s[i] \in WordChars THEN s[i] ELSE "_"]

RECURSIVE DropWhitespace(_)
DropWhitespace(s) ==
    IF s # <<>> /\ Head(s) \in Whitespace THEN DropWhitespace(Tail(s)) ELSE s

(* browserName.replace(/\s+/g, '_'): one '_' for each run of whitespace. *)
RECURSIVE ReplaceWhitespace(_)
ReplaceWhitespace(s) ==
    IF s = <<>> THEN <<>>
    ELSE IF Head(s) \in Whitespace
         THEN <<"_">> \o ReplaceWhitespace(DropWhitespace(Tail(s)))
         ELSE <<Head(s)>> \o ReplaceWhitespace(Tail(s))

(* Array.prototype.join *)
RECURSIVE Join(_, _)
Join(parts, sep) ==
    IF parts = <<>> THEN <<>>
    ELSE IF Len(parts) = 1 THEN parts[1]
    ELSE parts[1] \o sep \o Join(Tail(parts), sep)

CommaSpace == <<",", " ">>

(* The slugs: two of the slugs array of each suite, and the two legacy     *)
(* paths the suites rename.                                                *)
HomeSlug == <<>>
Home ==
    <<"h", "o", "m", "e">>
CaseStudies ==
    <<"c", "a", "s", "e", "-", "s", "t", "u", "d", "i", "e", "s">>
CaseStudiesAllianzTrade ==
    <<"c", "a", "s", "e", "-", "s", "t", "u", "d", "i", "e", "s", "/", "a",
    "l", "l", "i", "a", "n", "z", "-", "t", "r", "a", "d", "e", "/">>
NewsIdeas ==
    <<"n", "e", "w", "s", "-", "i", "d", "e", "a", "s", "/">>
SpeakerSubmissions ==
    <<"s", "p", "e", "a", "k", "e", "r", "-", "s", "u", "b", "m", "i", "s",
    "s", "i", "o", "n", "s">>
LocWarwickPizza ==
    <<"l", "o", "c", "/", "w", "a", "r", "w", "i", "c", "k", "-", "p", "i",
    "z", "z", "a", "/">>
WarwickPizza ==
    <<"w", "a", "r", "w", "i", "c", "k", "-", "p", "i", "z", "z", "a">>
LocCateringInquiry ==
    <<"l", "o", "c", "/", "c", "a", "t", "e", "r", "i", "n", "g", "-", "i",
    "n", "q", "u", "i", "r", "y">>
CateringInquiry ==
    <<"c", "a", "t", "e", "r", "i", "n", "g", "-", "i", "n", "q", "u", "i",
    "r", "y">>

Suites == {"tfg", "ada", "at-scale"}

Slugs(st) ==
    CASE st = "tfg" -> {HomeSlug, CaseStudiesAllianzTrade}
      [] st = "ada" -> {HomeSlug, CaseStudies}
      [] st = "at-scale" -> {NewsIdeas, SpeakerSubmissions}

(* The projects of the Playwright configuration, and the user agent the    *)
(* page reports under each.                                                *)
Chromium ==
    <<"c", "h", "r", "o", "m", "i", "u", "m">>
MobileChrome ==
    <<"M", "o", "b", "i", "l", "e", " ", "C", "h", "r", "o", "m", "e">>
Unknown ==
    <<"u", "n", "k", "n", "o", "w", "n">>

Browsers == {Chromium, MobileChrome}

UserAgent(browser) ==
    IF browser = Chromium THEN "Mozilla/5.0 (X11; Linux x86_64) Chrome"
    ELSE "Mozilla/5.0 (Linux; Android 11; Pixel 5) Chrome Mobile"

(* testInfo.project.name || 'unknown' *)
BrowserName(name) == IF name = <<>> THEN Unknown ELSE name

(* The scan result: the violations of axe-core, each with the nodes it     *)
(* affects.                                                                *)
CatText ==
    <<"c", "a", "t", ".", "t", "e", "x", "t">>
Wcag2a ==
    <<"w", "c", "a", "g", "2", "a">>
SelectorImg ==
    <<"i", "m", "g">>
SelectorFrame ==
    <<"#", "a", "d">>

ImageAlt ==
    [id |-> "image-alt", impact |-> "critical", tags |-> <<CatText, Wcag2a>>,
     description |-> "Ensures <img> elements have alternate text",
     help |-> "Images must have alternate text",
     helpUrl |-> "https://dequeuniversity.com/rules/axe/image-alt"]

HtmlLang ==
    [id |-> "html-has-lang", impact |-> "serious", tags |-> <<Wcag2a>>,
     description |-> "Ensures every HTML document has a lang attribute",
     help |-> "<html> element must have a lang attribute",
     helpUrl |-> "https://dequeuniversity.com/rules/axe/html-has-lang"]

DocumentTitle ==
    [id |-> "document-title", impact |-> "serious", tags |-> <<Wcag2a, CatText>>,
     description |-> "Ensures each HTML document contains a non-empty <title>",
     help |-> "Documents must have <title> element to aid in navigation",
     helpUrl |-> "https://dequeuniversity.com/rules/axe/document-title"]

Rules == {ImageAlt, HtmlLang, DocumentTitle}

NodeA ==
    [html |-> "<img src=\"a.png\">", target |-> <<SelectorImg>>,
     failureSummary |-> "Fix any of the following: no alt attribute"]

NodeB ==
    [html |-> "<img src=\"b.png\">", target |-> <<SelectorFrame, SelectorImg>>,
     failureSummary |-> "Fix any of the following: no alt attribute"]

Nodes == {NodeA, NodeB}

Violation(rule, nodes) ==
    [id |-> rule.id, impact |-> rule.impact, tags |-> rule.tags,
     description |-> rule.description, help |-> rule.help,
     helpUrl |-> rule.helpUrl, nodes |-> nodes]

(* The sequences of up to n different elements of S. *)
DistinctSeqs(S, n) ==
    {f \in SeqsUpTo(S, n) : \A i, j \in 1..Len(f) : i # j => f[i] # f[j]}

(* axe-core lists under a violation the nodes it affects: at least one,    *)
(* each once.                                                              *)
NodeSeqs == DistinctSeqs(Nodes, Cardinality(Nodes)) \ {<<>>}

(* axe-core reports a rule that is violated once, with all its nodes. *)
ScanResults ==
    UNION {{[i \in 1..Len(rules) |-> Violation(rules[i], nodes[i])] :
               nodes \in [1..Len(rules) -> NodeSeqs]} :
           rules \in DistinctSeqs(Rules, MaxViolations)}

(* Three scan results: a clean page, one violation on one node, and two    *)
(* violations on two nodes and one.                                        *)
BasicScans ==
    {<<>>,
     <<Violation(ImageAlt, <<NodeA>>)>>,
     <<Violation(ImageAlt, <<NodeA, NodeB>>), Violation(HtmlLang, <<NodeB>>)>>}

(* The properties the test body reads from a violation and from a node. *)
ViolationFields == {"id", "impact", "tags", "description", "help", "helpUrl"}
NodeFields == {"html", "target", "failureSummary"}

Has(obj, f) == f \in DOMAIN obj

Without(obj, f) == [k \in DOMAIN obj \ {f} |-> obj[k]]

(* A scan result with one property taken away from one violation. *)
LackingInViolation(scan) ==
    {[scan EXCEPT ![i] = Without(scan[i], f)] :
        i \in 1..Len(scan), f \in ViolationFields \cup {"nodes"}}

(* A scan result with one property taken away from one node. *)
LackingInNode(scan) ==
    UNION {{[scan EXCEPT ![i].nodes[j] = Without(scan[i].nodes[j], f)] :
               j \in 1..Len(scan[i].nodes), f \in NodeFields} :
           i \in 1..Len(scan)}

(* The scan results of BasicScans with one expected property missing. *)
MalformedScans ==
    UNION {LackingInViolation(scan) \cup LackingInNode(scan) : scan \in BasicScans}

(* A visit: the test of one slug under one project, and what the scan of   *)
(* the page returns.                                                       *)
VisitsOf(st, scans) == [slug : Slugs(st), project : Browsers, violations : scans]

---------------------------------------------------------------------------
(* Flattening: the body of element[1].nodes.forEach.                       *)

(* Building dataRow throws a TypeError when it calls join on a property    *)
(* the descriptor lacks: element[1].tags.join, node.target.join.  A        *)
(* property that is only read gives undefined and nothing is thrown.       *)
RowThrows(element, node) == ~Has(element, "tags") \/ ~Has(node, "target")

(* dataRow: the properties that have a value; one read as undefined is a   *)
(* key the row lacks once it is in a sheet.                                *)
NodeRow(page, device, element, node) ==
    LET keys == {"page", "device"}
                   \cup {f \in ViolationFields : Has(element, f)}
                   \cup {f \in NodeFields : Has(node, f)}
    IN  [f \in keys |->
           CASE f = "page" -> page
             [] f = "device" -> device
             [] f = "tags" -> Join(element.tags, CommaSpace)
             [] f = "target" -> Join(node.target, CommaSpace)
             [] f \in NodeFields \ {"target"} -> node[f]
             [] OTHER -> element[f]]

(* A flattening that makes one row per violation, of its first node. *)
FirstNodeOnly(page, device, element) ==
    <<NodeRow(page, device, element, element.nodes[1])>>

(* The rows pushed from the nodes, in node order, until a row throws. *)
RECURSIVE PushNodes(_, _, _, _)
PushNodes(page, device, element, nodes) ==
    IF nodes = <<>> \/ RowThrows(element, Head(nodes)) THEN <<>>
    ELSE <<NodeRow(page, device, element, Head(nodes))>>
         \o PushNodes(page, device, element, Tail(nodes))

(* The rows one violation pushes, one per node and in node order. *)
NodeRows(page, device, element) ==
    IF Has(element, "nodes")
    THEN PushNodes(page, device, element, element.nodes)
    ELSE <<>>

(* The iteration of the violations forEach ends with a TypeError:          *)
(* element[1].nodes.forEach on a descriptor without nodes, or a row that   *)
(* throws.                                                                 *)
ElementThrows(element) ==
    \/ ~Has(element, "nodes")
    \/ \E j \in 1..Len(element.nodes) : RowThrows(element, element.nodes[j])

---------------------------------------------------------------------------
(* The names of the result files.                                          *)

(* tfg: slug || "home", the two legacy paths renamed. *)
FilenameSlug(s) ==
    LET f == IF s = <<>> THEN Home ELSE s
    IN  IF f = LocWarwickPizza THEN WarwickPizza
        ELSE IF f = LocCateringInquiry THEN CateringInquiry
        ELSE f

(* tfg: sheetWriter(`${filenameSlug}_${browserName.replace(/\s+/g, '_')}`), *)
(* and sheetWriter sanitizes what it is given.                             *)
TfgFileName(s, name) ==
    Sanitize(FilenameSlug(s) \o <<"_">> \o ReplaceWhitespace(BrowserName(name)))

(* ada: sheetWriter(slug || "home") writes `spreadsheets/${slug}.xlsx`. *)
AdaFileName(s) == IF s = <<>> THEN Home ELSE s

(* at-scale: sheetWriter(slug, sheetData) sanitizes the slug. *)
AtScaleFileName(s) == Sanitize(s)

(* at-scale: the slugs sheetWriter is called with at the end of one         *)
(* iteration of the violations forEach, and the value slug has afterwards.  *)
AtScaleCalls(s) ==
    LET s1 == IF s = LocWarwickPizza THEN WarwickPizza ELSE s
        c1 == IF s = LocWarwickPizza THEN <<WarwickPizza>> ELSE <<>>
        s2 == IF s1 = LocCateringInquiry THEN CateringInquiry ELSE s1
        c2 == IF s1 = LocCateringInquiry THEN <<CateringInquiry>> ELSE <<>>
        c3 == IF s2 # <<>> THEN <<s2>> ELSE <<>>
    IN  [slug |-> s2, calls |-> c1 \o c2 \o c3]

---------------------------------------------------------------------------
(* The worker processes of the test runner.  A worker evaluates the test   *)
(* file once, so its module-level variables live as long as it does; it    *)
(* runs one test at a time; and the runner discards a worker whose test    *)
(* failed and starts a new one in its place for the tests that follow.     *)

Workers == {"w1", "w2"}

(* The module-level state after the test file is evaluated. *)
FreshModule == [sheetData |-> <<>>, startupPrinted |-> FALSE]

(* A runner that keeps the worker after a failed test. *)
KeepWorker(m, w, result) == m

(* The module-level state of the workers after a test of worker w. *)
AfterTest(m, w, result) ==
    IF result = "passed" THEN m ELSE [m EXCEPT ![w] = FreshModule]

(* An assertion that accepts every scan result. *)
AcceptsAll(v) == TRUE

(* expect(accessibilityScanResults.violations).toEqual([]) *)
ToEqualEmpty(v) == Len(v) = 0

(* The array the name sheetData denotes in the test body: local to the     *)
(* test in tfg, module-level in ada and at-scale.                          *)
CurrentSheetData ==
    IF suite = "tfg" THEN testSheetData ELSE modules[worker].sheetData

(* The call XLSX.writeFile makes for a result file, with the visit that    *)
(* made it.                                                                *)
WriteCall(name, data) ==
    [name |-> name, sheet |-> json_to_sheet(data),
     slug |-> visit.slug, project |-> visit.project, visit |-> visitNo,
     worker |-> worker]

(* No test has run: the workers are new and spreadsheets/ holds no result  *)
(* file.                                                                   *)
TestIdle ==
    /\ worker = "w1"
    /\ modules = [w \in Workers |-> FreshModule]
    /\ visit = [slug |-> <<>>, project |-> <<>>, violations |-> <<>>]
    /\ slug = <<>>
    /\ vIndex = 0
    /\ testSheetData = <<>>
    /\ tpc = "idle"
    /\ written = <<>>
    /\ writeFailed = FALSE
    /\ outcome = "none"
    /\ visitNo = 0
    /\ startupPrints = 0


---------------------------------------------------------------------------
(* The state after the module-level declarations of a fresh process.       *)

Fresh ==
    /\ pc = "readdir"
    /\ files = <<>>
    /\ index = 0
    /\ lastIndex = NumberValue(0)
    /\ sheetData = <<>>
    /\ masterWritten = FALSE
    /\ workWritten = FALSE
    /\ indicesToDelete = <<>>
    /\ outerIndex = 0
    /\ uniqueArray = <<>>
    /\ spliceIndex = 0
    /\ completion = <<>>

(* A directory after the collection runs: any of the two per-page result   *)
(* files, readable or not, and possibly an entry that is no spreadsheet.   *)
Init ==
    /\ \E a, b \in SeqsUpTo(RunRecords, MaxRows) :
       \E ea, eb, eo, ra, rb \in BOOLEAN :
          dir = [n \in Names |->
                   CASE n = PageFileA /\ ea -> File(a, ra)
                     [] n = PageFileB /\ eb -> File(b, rb)
                     [] n = OtherFile /\ eo -> File(<<>>, TRUE)
                     [] OTHER -> NoFile]
    /\ Fresh
    /\ suite = "none"
    /\ TestIdle

(* The result files of two pages, the first k key pairs in the file of     *)
(* page p1 and the others in the file of page p2.                          *)
TwoFiles(keys, k) ==
    [n \in Names |->
       CASE n = PageFileA -> File(PageRows("p1", SubSeq(keys, 1, k)), TRUE)
         [] n = PageFileB -> File(PageRows("p2", SubSeq(keys, k + 1, Len(keys))), TRUE)
         [] OTHER -> NoFile]

(* A directory that holds the readable result files of two pages, with up  *)
(* to MaxLen records in all.                                               *)
InitDedup ==
    /\ \E n \in 0..MaxLen : \E keys \in [1..n -> Keys], k \in 0..n :
          dir = TwoFiles(keys, k)
    /\ Fresh
    /\ suite = "none"
    /\ TestIdle

(* The same with records that lack fields.                                 *)
InitMalformed ==
    /\ \E n \in 0..MaxMalformed : \E keys \in [1..n -> MalformedKeys], k \in 0..n :
          dir = TwoFiles(keys, k)
    /\ Fresh
    /\ suite = "none"
    /\ TestIdle

---------------------------------------------------------------------------
(* Stage 1: the fs.readdir callback up to the end of files.forEach.        *)

AfterForEach(data) == IF Len(data) = 0 THEN "filter" ELSE "detect"

(* fs.readdir succeeds: lastIndex = files.length - 1 and the forEach       *)
(* begins (with no entry it is over at once).                              *)
ReadDir ==
    /\ pc = "readdir"
    /\ \E fs \in Enumerations(dir) :
          /\ files' = fs
          /\ lastIndex' = NumberValue(Len(fs) - 1)
          /\ pc' = IF Len(fs) = 0 THEN AfterForEach(sheetData) ELSE "forEach"
    /\ index' = 0
    /\ UNCHANGED <<dir, sheetData, masterWritten, workWritten,
                   indicesToDelete, outerIndex, uniqueArray, spliceIndex>>
    /\ UNCHANGED <<completion, testVars>>

(* A lastIndex that is true in every iteration. *)
AlwaysLast(last, i) == TrueValue

(* The value of lastIndex after the first statement of the iteration. *)
NextLastIndex(last, i) == IF StrictEqualsNumber(last, i) THEN TrueValue ELSE last

(* One iteration of files.forEach, with the call of appendDataToSheet it   *)
(* makes for an .xlsx entry.  appendDataToSheet has no await: it runs to   *)
(* its end inside the iteration, and an exception of readFileSync rejects  *)
(* its promise without ending the forEach.                                 *)
ForEachFile ==
    /\ pc = "forEach"
    /\ index < Len(files)
    /\ LET file == At(files, index)
           last == NextLastIndex(lastIndex, index)
           appended == sheetData \o sheet_to_json(dir[file].sheet)
       IN  /\ lastIndex' = last
           /\ IF extname(file) = ".xlsx" /\ dir[file].readable
              THEN /\ sheetData' = appended
                   /\ IF last = TrueValue
                      THEN /\ dir' = [dir EXCEPT ![MasterList] = File(appended, TRUE)]
                           /\ masterWritten' = TRUE
                      ELSE UNCHANGED <<dir, masterWritten>>
              ELSE UNCHANGED <<sheetData, dir, masterWritten>>
           /\ index' = index + 1
           /\ pc' = IF index + 1 = Len(files) THEN AfterForEach(sheetData')
                    ELSE "forEach"
    /\ UNCHANGED <<files, workWritten, indicesToDelete, outerIndex,
                   uniqueArray, spliceIndex>>
    /\ UNCHANGED <<completion, testVars>>

---------------------------------------------------------------------------
(* Stages 2 to 4: the rest of the callback.                                *)

(* One iteration of the outer sheetData.forEach, with its inner forEach.   *)
DetectOuter ==
    /\ pc = "detect"
    /\ outerIndex < Len(sheetData)
    /\ indicesToDelete' = indicesToDelete \o InnerLoop(sheetData, outerIndex, 0)
    /\ outerIndex' = outerIndex + 1
    /\ pc' = IF outerIndex + 1 = Len(sheetData) THEN "filter" ELSE "detect"
    /\ UNCHANGED <<dir, files, index, lastIndex, sheetData, masterWritten,
                   workWritten, uniqueArray, spliceIndex>>
    /\ UNCHANGED <<completion, testVars>>

(* const uniqueArray = indicesToDelete.filter(...) *)
FilterIndices ==
    /\ pc = "filter"
    /\ uniqueArray' = FilterSeen(indicesToDelete, {})
    /\ pc' = "sort"
    /\ UNCHANGED <<dir, files, index, lastIndex, sheetData, masterWritten,
                   workWritten, indicesToDelete, outerIndex, spliceIndex>>
    /\ UNCHANGED <<completion, testVars>>

(* The two sort calls; the deletion loop begins (with no position to       *)
(* delete it is over at once).                                             *)
SortIndices ==
    /\ pc = "sort"
    /\ indicesToDelete' = Sort(indicesToDelete)
    /\ uniqueArray' = Sort(uniqueArray)
    /\ spliceIndex' = 0
    /\ pc' = IF Len(uniqueArray) = 0 THEN "write" ELSE "splice"
    /\ UNCHANGED <<dir, files, index, lastIndex, sheetData, masterWritten,
                   workWritten, outerIndex>>
    /\ UNCHANGED <<completion, testVars>>

(* One iteration of uniqueArray.forEach: sheetData.splice(element, 1). *)
SpliceOne ==
    /\ pc = "splice"
    /\ spliceIndex < Len(uniqueArray)
    /\ sheetData' = Splice(sheetData, At(uniqueArray, spliceIndex))
    /\ spliceIndex' = spliceIndex + 1
    /\ pc' = IF spliceIndex + 1 = Len(uniqueArray) THEN "write" ELSE "splice"
    /\ UNCHANGED <<dir, files, index, lastIndex, masterWritten, workWritten,
                   indicesToDelete, outerIndex, uniqueArray>>
    /\ UNCHANGED <<completion, testVars>>

(* The two figures of the completion message: both template literals       *)
(* interpolate sheetData.length, read after the deletion.                  *)
CompletionLog(data) == [master |-> Len(data), work |-> Len(data)]

(* Stage 4: work-list.xlsx is written from what is left of sheetData, and  *)
(* the completion message is logged.                                       *)
WriteWorkList ==
    /\ pc = "write"
    /\ dir' = [dir EXCEPT ![WorkList] = File(sheetData, TRUE)]
    /\ workWritten' = TRUE
    /\ completion' = <<CompletionLog(sheetData)>>
    /\ pc' = "done"
    /\ UNCHANGED <<files, index, lastIndex, sheetData, masterWritten,
                   indicesToDelete, outerIndex, uniqueArray, spliceIndex>>
    /\ UNCHANGED testVars

RECURSIVE Sum(_, _)
Sum(f, S) == IF S = {} THEN 0
             ELSE LET x == CHOOSE y \in S : TRUE IN f[x] + Sum(f, S \ {x})

(* The records held by the .xlsx entries of a directory. *)
Load(d) ==
    Sum([n \in Names |-> Len(d[n].sheet.rows)],
        {n \in Entries(d) : extname(n) = ".xlsx"})

(* The script is started again on the directory as the run left it: a new *)
(* process, with the module-level state of a fresh one.                    *)
RunAgain ==
    /\ pc = "done"
    /\ Load(dir) <= MaxLoad
    /\ pc' = "readdir"
    /\ files' = <<>>
    /\ index' = 0
    /\ lastIndex' = NumberValue(0)
    /\ sheetData' = <<>>
    /\ masterWritten' = FALSE
    /\ workWritten' = FALSE
    /\ indicesToDelete' = <<>>
    /\ outerIndex' = 0
    /\ uniqueArray' = <<>>
    /\ spliceIndex' = 0
    /\ completion' = <<>>
    /\ UNCHANGED dir
    /\ UNCHANGED testVars

(* What the callback's first statements do with the error fs.readdir hands  *)
(* over.  `let lastIndex = files.length - 1` comes before `if (err)`: with  *)
(* files undefined it throws a TypeError that nothing catches, and the      *)
(* branch that reports 'Error reading directory' and returns is behind it.  *)
OnReadDirError(filesArg) ==
    IF filesArg = Undefined THEN "uncaught" ELSE "reported"

(* fs.readdir fails (the directory is missing, say): the callback is called *)
(* with the error and without files.                                        *)
ReadDirError ==
    /\ pc = "readdir"
    /\ pc' = OnReadDirError(Undefined)
    /\ UNCHANGED <<dir, files, index, lastIndex, sheetData, masterWritten,
                   workWritten, indicesToDelete, outerIndex, uniqueArray,
                   spliceIndex>>
    /\ UNCHANGED <<completion, testVars>>

NextDedup ==
    \/ ReadDir
    \/ ForEachFile
    \/ DetectOuter
    \/ FilterIndices
    \/ SortIndices
    \/ SpliceOne
    \/ WriteWorkList

Next ==
    \/ NextDedup
    \/ ReadDirError
    \/ RunAgain

Spec == Init /\ [][Next]_vars

SpecDedup == InitDedup /\ [][NextDedup]_vars

SpecMalformed == InitMalformed /\ [][NextDedup]_vars

---------------------------------------------------------------------------
(* The detection and removal stages as functions of the working sequence.  *)

(* Both forEach loops: every position pushed, in the order pushed. *)
RECURSIVE DetectFrom(_, _)
DetectFrom(data, outerIdx) ==
    IF outerIdx >= Len(data) THEN <<>>
    ELSE InnerLoop(data, outerIdx, 0) \o DetectFrom(data, outerIdx + 1)

(* uniqueArray.forEach(element => sheetData.splice(element, 1)) *)
RECURSIVE SpliceAll(_, _)
SpliceAll(data, positions) ==
    IF positions = <<>> THEN data
    ELSE SpliceAll(Splice(data, Head(positions)), Tail(positions))

(* Detection, index de-duplication, sort and deletion. *)
RemoveDuplicates(data) ==
    SpliceAll(data, Sort(FilterSeen(DetectFrom(data, 0), {})))

(* Whether a run over the enumeration fs executes the write of             *)
(* master-list.xlsx: appendDataToSheet reaches it only in the call made    *)
(* for the entry at index files.length - 1, so that entry has to be an     *)
(* .xlsx file and its read has to succeed.                                 *)
WritesMaster(fs, d) ==
    /\ Len(fs) > 0
    /\ extname(At(fs, Len(fs) - 1)) = ".xlsx"
    /\ d[At(fs, Len(fs) - 1)].readable

---------------------------------------------------------------------------
(* The test body of the collection suites.                                 *)

(* A suite is started, and the consolidation script is not run. *)
InitCollect ==
    /\ suite \in Suites
    /\ TestIdle
    /\ dir = [n \in Names |-> NoFile]
    /\ Fresh

(* A test body that asserts before it writes. *)
AssertFirst(st) == "expect"

(* Where the test body goes on after the violations forEach: tfg and ada   *)
(* have the call of sheetWriter between the forEach and the assertion,     *)
(* at-scale has made its calls inside the forEach.                         *)
AfterViolations(st) == IF st = "at-scale" THEN "expect" ELSE "write"

(* printStartupInfo(): the information is logged if the flag of this       *)
(* worker's module is not set, and the flag is set.                        *)
printStartupInfo(module) ==
    [module |-> [module EXCEPT !.startupPrinted = TRUE],
     logged |-> IF module.startupPrinted THEN 0 ELSE 1]

(* The runner starts the next test in one of its workers.  The test body   *)
(* up to the flattening: printStartupInfo() (tfg), page.goto, analyze(),   *)
(* and in tfg the declaration of the local sheetData.                      *)
BeginVisit(visits, workers, limit) ==
    /\ tpc = "idle"
    /\ visitNo < limit
    /\ \E v \in visits, w \in workers :
          /\ visit' = v
          /\ slug' = v.slug
          /\ worker' = w
          /\ modules' = IF suite = "tfg"
                        THEN [modules EXCEPT ![w] = printStartupInfo(modules[w]).module]
                        ELSE modules
          /\ startupPrints' = IF suite = "tfg"
                              THEN startupPrints + printStartupInfo(modules[w]).logged
                              ELSE startupPrints
          /\ tpc' = IF Len(v.violations) > 0 THEN "flatten"
                    ELSE AfterViolations(suite)
    /\ testSheetData' = <<>>
    /\ vIndex' = 0
    /\ writeFailed' = FALSE
    /\ outcome' = "running"
    /\ visitNo' = visitNo + 1
    /\ UNCHANGED <<suite, written>>
    /\ UNCHANGED mergeVars

(* A run of up to MaxVisits tests. *)
BeginCollectVisit ==
    BeginVisit(VisitsOf(suite, BasicScans), Workers, MaxVisits)

(* The first test of a run, in the worker the runner starts first. *)
BeginFlattenVisit ==
    BeginVisit(VisitsOf(suite, ScanResults), {"w1"}, 1)

(* The successful ones of the calls of one at-scale iteration. *)
RECURSIVE Successful(_, _, _)
Successful(calls, oks, data) ==
    IF calls = <<>> THEN <<>>
    ELSE (IF Head(oks) THEN <<WriteCall(AtScaleFileName(Head(calls)), data)>>
          ELSE <<>>)
         \o Successful(Tail(calls), Tail(oks), data)

(* One iteration of the violations forEach: the rows of the violation are  *)
(* pushed; in at-scale sheetWriter is then called, and an exception of     *)
(* XLSX.writeFile is caught inside it.  A TypeError raised while the rows  *)
(* are built leaves the test body: the rows pushed before it stay pushed,  *)
(* nothing more of the body is run and the test has failed.                *)
FlattenViolation ==
    /\ tpc = "flatten"
    /\ vIndex < Len(visit.violations)
    /\ LET element == At(visit.violations, vIndex)
           data == CurrentSheetData
                      \o NodeRows(slug, UserAgent(visit.project), element)
           after == AtScaleCalls(slug)
           last == vIndex + 1 = Len(visit.violations)
           pushed == IF suite = "tfg" THEN modules
                     ELSE [modules EXCEPT ![worker].sheetData = data]
       IN  /\ testSheetData' = IF suite = "tfg" THEN data ELSE testSheetData
           /\ IF ElementThrows(element)
              THEN /\ modules' = AfterTest(pushed, worker, "threw")
                   /\ outcome' = "threw"
                   /\ tpc' = "idle"
                   /\ UNCHANGED <<slug, written, writeFailed, vIndex>>
              ELSE /\ modules' = pushed
                   /\ IF suite = "at-scale"
                      THEN /\ slug' = after.slug
                           /\ \E oks \in [1..Len(after.calls) -> BOOLEAN] :
                                 /\ written' = written
                                       \o Successful(after.calls, oks, data)
                                 /\ writeFailed' =
                                       (writeFailed \/ \E k \in DOMAIN oks : ~oks[k])
                      ELSE UNCHANGED <<slug, written, writeFailed>>
                   /\ tpc' = IF last THEN AfterViolations(suite) ELSE "flatten"
                   /\ vIndex' = vIndex + 1
                   /\ UNCHANGED outcome
    /\ UNCHANGED <<suite, worker, visit, visitNo, startupPrints>>
    /\ UNCHANGED mergeVars

(* tfg and ada: if (sheetData.length > 0) sheetWriter(...).  The writer of *)
(* tfg catches an exception of XLSX.writeFile and logs it; the writer of   *)
(* ada has no try, so the exception leaves the test body: the test has     *)
(* failed and the assertion is not reached.                                *)
WriteResult ==
    /\ tpc = "write"
    /\ LET data == CurrentSheetData
       IN  IF Len(data) > 0
           THEN \E ok \in BOOLEAN :
                   /\ writeFailed' = ~ok
                   /\ written' =
                         IF ok
                         THEN Append(written,
                                 WriteCall(IF suite = "tfg"
                                           THEN TfgFileName(slug, visit.project)
                                           ELSE AdaFileName(slug), data))
                         ELSE written
                   /\ IF suite = "ada" /\ ~ok
                      THEN /\ outcome' = "threw"
                           /\ modules' = AfterTest(modules, worker, "threw")
                           /\ tpc' = "idle"
                      ELSE /\ tpc' = "expect"
                           /\ UNCHANGED <<outcome, modules>>
           ELSE /\ tpc' = "expect"
                /\ UNCHANGED <<written, writeFailed, outcome, modules>>
    /\ UNCHANGED <<suite, worker, visit, slug, vIndex, testSheetData, visitNo,
                   startupPrints>>
    /\ UNCHANGED mergeVars

(* The assertion that ends the test body, and what the runner does with    *)
(* the worker after the test.                                              *)
Expect ==
    /\ tpc = "expect"
    /\ LET result == IF ToEqualEmpty(visit.violations) THEN "passed" ELSE "failed"
       IN  /\ outcome' = result
           /\ modules' = AfterTest(modules, worker, result)
    /\ tpc' = "idle"
    /\ UNCHANGED <<suite, worker, visit, slug, vIndex, testSheetData, written,
                   writeFailed, visitNo, startupPrints>>
    /\ UNCHANGED mergeVars

(* The first test of a run, on a page whose scan result lacks one          *)
(* expected property.                                                      *)
BeginMalformedVisit ==
    BeginVisit(VisitsOf(suite, MalformedScans), {"w1"}, 1)

NextCollect ==
    \/ BeginCollectVisit
    \/ FlattenViolation
    \/ WriteResult
    \/ Expect

NextFlatten ==
    \/ BeginFlattenVisit
    \/ FlattenViolation
    \/ WriteResult
    \/ Expect

SpecCollect == InitCollect /\ [][NextCollect]_vars

SpecFlatten == InitCollect /\ [][NextFlatten]_vars

NextLacking ==
    \/ BeginMalformedVisit
    \/ FlattenViolation
    \/ WriteResult
    \/ Expect

SpecLacking == InitCollect /\ [][NextLacking]_vars

---------------------------------------------------------------------------
(* Vocabulary of the properties.                                           *)

Range(arr) == {arr[i] : i \in 1..Len(arr)}
Positions(arr) == 0..(Len(arr) - 1)

(* The de-duplication key: which of the two fields the record has, and     *)
(* their values.                                                           *)
EqualKey(a, b) ==
    \A f \in {"target", "failureSummary"} :
        /\ (f \in DOMAIN a) <=> (f \in DOMAIN b)
        /\ (f \in DOMAIN a) => a[f] = b[f]

(* The records of the readable .xlsx entries, in the order of fs. *)
RECURSIVE ReadAll(_, _)
ReadAll(fs, d) ==
    IF fs = <<>> THEN <<>>
    ELSE (IF Head(fs).ext = ".xlsx" /\ d[Head(fs)].readable
          THEN sheet_to_json(d[Head(fs)].sheet) ELSE <<>>)
         \o ReadAll(Tail(fs), d)

(* The working sequence of a run over result files only. *)
Working == ReadAll(files, dir)

(* The elements of arr at the positions of S, in ascending position. *)
RECURSIVE PickFrom(_, _, _)
PickFrom(arr, S, i) ==
    IF i >= Len(arr) THEN <<>>
    ELSE (IF i \in S THEN <<At(arr, i)>> ELSE <<>>) \o PickFrom(arr, S, i + 1)
Pick(arr, S) == PickFrom(arr, S, 0)

(* The positions whose key occurs at no smaller position. *)
FirstOfKey(arr) ==
    {i \in Positions(arr) : \A j \in 0..(i - 1) : ~EqualKey(At(arr, j), At(arr, i))}

KeyGroup(arr, i) == {j \in Positions(arr) : EqualKey(At(arr, j), At(arr, i))}

(* The orderings of the elements of arr. *)
RECURSIVE Orderings(_)
Orderings(arr) ==
    IF arr = <<>> THEN {<<>>}
    ELSE UNION {{<<arr[i]>> \o rest :
                    rest \in Orderings(SubSeq(arr, 1, i - 1)
                                          \o SubSeq(arr, i + 1, Len(arr)))} :
                i \in 1..Len(arr)}

(* The two sequences hold the same keys. *)
SameKeys(a, b) ==
    /\ \A i \in 1..Len(a) : \E j \in 1..Len(b) : EqualKey(a[i], b[j])
    /\ \A j \in 1..Len(b) : \E i \in 1..Len(a) : EqualKey(a[i], b[j])

WorkListRecords == sheet_to_json(dir[WorkList].sheet)
MasterListRecords == sheet_to_json(dir[MasterList].sheet)

(* Every .xlsx entry of the enumeration can be read. *)
AllReadable ==
    \A i \in 1..Len(files) : extname(files[i]) = ".xlsx" => dir[files[i]].readable

(* An entry that is neither of the two output files. *)
IsResultFile(n) == n # MasterList /\ n # WorkList

IsXlsx(n) == extname(n) = ".xlsx"

(* The run is the first on its directory: it was handed no output file. *)
FirstRun == \A i \in 1..Len(files) : IsResultFile(files[i])

(* The positions of the enumeration whose read fails. *)
FailedReads == {i \in 1..Len(files) : IsXlsx(files[i]) /\ ~dir[files[i]].readable}

(* fs.readdir has failed and the callback has dealt with it. *)
ListingFailed == pc \in {"uncaught", "reported"}

(* The rows of a whole scan result, violation after violation. *)
RECURSIVE FlattenAll(_, _, _)
FlattenAll(page, device, violations) ==
    IF violations = <<>> THEN <<>>
    ELSE NodeRows(page, device, Head(violations))
         \o FlattenAll(page, device, Tail(violations))

(* The rows flattened from the scan result of the current visit. *)
OwnRows == FlattenAll(visit.slug, UserAgent(visit.project), visit.violations)

IsPrefix(a, b) == Len(a) <= Len(b) /\ a = SubSeq(b, 1, Len(a))

(* The successful writes of the current visit, and the earlier ones. *)
OwnWrites == {k \in 1..Len(written) : written[k].visit = visitNo}
EarlierWrites == {k \in 1..Len(written) : written[k].visit < visitNo}

(* A test has ended and the next has not begun. *)
TestEnded == tpc = "idle" /\ visitNo > 0

(* The nodes of the violations before violation i; the characters of a     *)
(* joined string before part k.                                            *)
RECURSIVE NodesBefore(_, _)
NodesBefore(v, i) ==
    IF i <= 1 THEN 0 ELSE Len(v[i - 1].nodes) + NodesBefore(v, i - 1)

RECURSIVE CharsBefore(_, _)
CharsBefore(parts, k) ==
    IF k <= 1 THEN 0 ELSE Len(parts[k - 1]) + 2 + CharsBefore(parts, k - 1)

(* s is the parts in their order with ", " between them. *)
JoinedFrom(s, parts) ==
    IF parts = <<>> THEN s = <<>>
    ELSE /\ Len(s) = CharsBefore(parts, Len(parts)) + Len(parts[Len(parts)])
         /\ \A k \in 1..Len(parts) :
               LET c == CharsBefore(parts, k)
               IN  /\ SubSeq(s, c + 1, c + Len(parts[k])) = parts[k]
                   /\ k > 1 => SubSeq(s, c - 1, c) = <<",", " ">>

RowFields ==
    {"page", "device", "id", "impact", "tags", "description", "help",
     "helpUrl", "html", "target", "failureSummary"}

StrictlyDescending(arr) == \A i, j \in 1..Len(arr) : i < j => arr[i] > arr[j]

(* One left-to-right pass that keeps a record iff its key is new. *)
RECURSIVE SinglePass(_, _)
SinglePass(arr, seenKeys) ==
    IF arr = <<>> THEN <<>>
    ELSE LET k == <<Get(Head(arr), "target"), Get(Head(arr), "failureSummary")>>
         IN  IF k \in seenKeys THEN SinglePass(Tail(arr), seenKeys)
             ELSE <<Head(arr)>> \o SinglePass(Tail(arr), seenKeys \cup {k})

(* The record has no such field; two records agree on the target. *)
Lacks(r, f) == f \notin DOMAIN r

SameTarget(a, b) ==
    \/ Lacks(a, "target") /\ Lacks(b, "target")
    \/ ~Lacks(a, "target") /\ ~Lacks(b, "target") /\ a.target = b.target

RecordA == MkRecord("p1", "t1", "s1")
RecordB == MkRecord("p2", "t1", "s1")
RecordC == MkRecord("p2", "t2", "s1")

---------------------------------------------------------------------------
(* C1: the work list written by a run holds exactly the records of the     *)
(* working sequence whose (target, failureSummary) key occurs at no        *)
(* smaller position, in their order: one record per distinct key, the      *)
(* earliest, so a group of k records with equal key loses k - 1 of them.   *)
C1_FirstOfEachKey ==
    pc = "done" =>
        LET W == Working
            kept == FirstOfKey(W)
        IN  /\ workWritten
            /\ WorkListRecords = Pick(W, kept)
            /\ \A i \in kept :
                  Cardinality(KeyGroup(W, i) \ kept)
                      = Cardinality(KeyGroup(W, i)) - 1

(* The example of the contract: [A, B, C] reduces to [A, C]. *)
C1_Witness ==
    /\ pc = "done"
    /\ Working = <<RecordA, RecordB, RecordC>>
    /\ WorkListRecords = <<RecordA, RecordC>>

(* C2: the removal step deletes exactly the marked positions: what is     *)
(* left of sheetData, and what the work list holds, is the working         *)
(* sequence at the unmarked positions, in the original order and with      *)
(* every field (page included) as it was read.                             *)
C2_RemovesExactlyMarked ==
    pc \in {"write", "done"} =>
        LET W == Working
            unmarked == Pick(W, Positions(W) \ Range(indicesToDelete))
        IN  /\ sheetData = unmarked
            /\ pc = "done" => WorkListRecords = unmarked

(* Five records, positions 1 and 3 marked: positions 0, 2 and 4 are left,  *)
(* and the record kept at position 0 has another page than its duplicate.  *)
C2_Witness ==
    /\ pc = "done"
    /\ Len(Working) = 5
    /\ Range(indicesToDelete) = {1, 3}
    /\ WorkListRecords = <<At(Working, 0), At(Working, 2), At(Working, 4)>>
    /\ At(Working, 0).page # At(Working, 1).page
    /\ At(WorkListRecords, 0).page = At(Working, 0).page

(* C3: sheetData is not modified while positions are detected, filtered    *)
(* and sorted; every deletion happens after detection has run over the     *)
(* whole working sequence, with uniqueArray holding every position that    *)
(* has an equal key before it, each once and in strictly descending        *)
(* order; and the deletions go through uniqueArray from its first element  *)
(* to its last.                                                            *)
C3_SnapshotThenDescending ==
    [][ /\ pc \in {"detect", "filter", "sort"} => sheetData' = sheetData
        /\ Len(sheetData') < Len(sheetData) =>
              /\ outerIndex = Len(Working)
              /\ LET W == Working
                 IN  Range(uniqueArray) = Positions(W) \ FirstOfKey(W)
              /\ StrictlyDescending(uniqueArray)
              /\ uniqueArray' = uniqueArray
              /\ indicesToDelete' = indicesToDelete
              /\ spliceIndex' = spliceIndex + 1
              /\ Len(sheetData') = Len(sheetData) - 1
              /\ sheetData' = Pick(sheetData, Positions(sheetData)
                                                \ {At(uniqueArray, spliceIndex)})
      ]_vars

(* Two deletions have been made, and a position had been marked twice. *)
C3_Witness ==
    /\ pc = "write"
    /\ spliceIndex = 2
    /\ Len(indicesToDelete) > Len(uniqueArray)

(* C4: the pass is a function of the sequence it is given, and applied to  *)
(* its own output it marks no position and changes nothing.                *)
C4_Idempotent ==
    pc = "done" =>
        /\ sheetData = RemoveDuplicates(Working)
        /\ DetectFrom(sheetData, 0) = <<>>
        /\ RemoveDuplicates(sheetData) = sheetData

(* A pass that removed records has ended. *)
C4_Witness ==
    /\ pc = "done"
    /\ Len(sheetData) + 2 <= Len(Working)
    /\ Len(sheetData) >= 2

(* C5: the pairwise detection and removal gives the same sequence as one   *)
(* left-to-right pass that keeps a record iff its key was not seen before. *)
C5_SameAsSinglePass ==
    pc \in {"write", "done"} => sheetData = SinglePass(Working, {})

(* A run whose single pass drops the second and the last of four records. *)
C5_Witness ==
    /\ pc = "done"
    /\ Len(Working) = 4
    /\ SinglePass(Working, {}) = <<At(Working, 0), At(Working, 2)>>
    /\ sheetData = <<At(Working, 0), At(Working, 2)>>

(* C6: a run has written both master-list.xlsx and work-list.xlsx when it *)
(* ends; stated for the runs in which no read failed and records were      *)
(* loaded.                                                                 *)
C6_BothWritten ==
    (pc = "done" /\ AllReadable /\ Len(sheetData) > 0)
    => (masterWritten /\ workWritten)

(* C7: the step that writes master-list.xlsx is the last iteration of      *)
(* files.forEach and writes the records of every readable .xlsx entry, in  *)
(* enumeration order and as they were read; no later step of the run       *)
(* changes the file.                                                       *)
C7_MasterIsConcatenation ==
    [][ /\ (~masterWritten /\ masterWritten') =>
              /\ index' = Len(files)
              /\ sheet_to_json(dir'[MasterList].sheet) = ReadAll(files, dir)
              /\ sheetData' = ReadAll(files, dir)
        /\ (masterWritten /\ masterWritten') => dir'[MasterList] = dir[MasterList]
      ]_vars

(* Two files with one record each were read, the master list holds both    *)
(* records in enumeration order and the removal has deleted the second.    *)
C7_Witness ==
    /\ pc = "done"
    /\ masterWritten
    /\ files = <<PageFileB, PageFileA>>
    /\ sheet_to_json(dir[PageFileB].sheet) = <<RecordB>>
    /\ sheet_to_json(dir[PageFileA].sheet) = <<RecordA>>
    /\ MasterListRecords = <<RecordB, RecordA>>
    /\ WorkListRecords = <<RecordB>>

(* C8: a run on a directory that holds master-list.xlsx and work-list.xlsx *)
(* writes a master list made of the records of the other .xlsx entries     *)
(* only.                                                                   *)
C8_OutputsNotRead ==
    (/\ pc = "done"
     /\ masterWritten
     /\ {MasterList, WorkList} \subseteq Range(files))
    => MasterListRecords = ReadAll(SelectSeq(files, IsResultFile), dir)

(* C9 as stated: the master list has as many records more than the work    *)
(* list as the detector recorded matches.                                  *)
C9_DifferenceIsMatches ==
    (pc = "done" /\ masterWritten /\ Len(indicesToDelete) >= 1) =>
        Len(MasterListRecords) - Len(WorkListRecords) = Len(indicesToDelete)

(* C9, amended: the master list has as many records more than the work     *)
(* list as there are distinct positions among the recorded matches; that   *)
(* is the number of matches when no key occurs more than twice.            *)
C9_DifferenceIsMarkedPositions ==
    (pc = "done" /\ masterWritten /\ Len(indicesToDelete) >= 1) =>
        /\ workWritten
        /\ Len(MasterListRecords) > Len(WorkListRecords)
        /\ Len(MasterListRecords) - Len(WorkListRecords)
              = Cardinality(Range(indicesToDelete))
        /\ (\A i \in Positions(MasterListRecords) :
               Cardinality(KeyGroup(MasterListRecords, i)) <= 2)
           => Cardinality(Range(indicesToDelete)) = Len(indicesToDelete)

(* Three records share a key: three matches, two records removed. *)
C9_Witness ==
    /\ pc = "done"
    /\ masterWritten
    /\ Len(indicesToDelete) = 3
    /\ Len(MasterListRecords) = 4
    /\ Len(WorkListRecords) = 2

(* C10: a missing target or failureSummary compares as one more value.     *)
(* Two records with equal target and both without failureSummary are       *)
(* duplicates, a record is marked only for an earlier record that has or   *)
(* lacks each of the two fields as it does, and the pass goes on to its    *)
(* end on such records.                                                    *)
C10_AbsentIsAValue ==
    /\ pc # "done" => ENABLED NextDedup
    /\ pc \in {"filter", "sort", "splice", "write", "done"} =>
          LET marked == Range(indicesToDelete)
          IN  /\ outerIndex = Len(Working)
              /\ \A i, j \in Positions(Working) :
                    (/\ i < j
                     /\ SameTarget(At(Working, i), At(Working, j))
                     /\ Lacks(At(Working, i), "failureSummary")
                     /\ Lacks(At(Working, j), "failureSummary"))
                    => j \in marked
              /\ \A j \in marked :
                    \E i \in 0..(j - 1) :
                       /\ SameTarget(At(Working, i), At(Working, j))
                       /\ Lacks(At(Working, i), "failureSummary")
                             <=> Lacks(At(Working, j), "failureSummary")
                       /\ Get(At(Working, i), "failureSummary")
                             = Get(At(Working, j), "failureSummary")

(* Three records with the same target, the first and the last without     *)
(* failureSummary: the last is removed as a duplicate of the first, the    *)
(* second, which has a failureSummary, stays.                              *)
C10_Witness ==
    /\ pc = "done"
    /\ Len(Working) = 3
    /\ \A i \in Positions(Working) : Get(At(Working, i), "target") = "t1"
    /\ Lacks(At(Working, 0), "failureSummary")
    /\ ~Lacks(At(Working, 1), "failureSummary")
    /\ Lacks(At(Working, 2), "failureSummary")
    /\ WorkListRecords = <<At(Working, 0), At(Working, 1)>>

(* C11: when the read of one .xlsx file fails, at whatever position of the *)
(* enumeration, the run goes on and the records of the other .xlsx files   *)
(* are in the master list and, one per key, in the work list it writes.    *)
(* Stated for first runs over .xlsx entries only, one of which fails.      *)
C11_ReadFailureSkipsOneFile ==
    (/\ pc = "done"
     /\ FirstRun
     /\ \A i \in 1..Len(files) : IsXlsx(files[i])
     /\ Cardinality(FailedReads) = 1
     /\ Len(Working) > 0)
    => LET W == Working
       IN  /\ masterWritten
           /\ MasterListRecords = W
           /\ workWritten
           /\ WorkListRecords = Pick(W, FirstOfKey(W))

(* C12: a run that reads no result file (no .xlsx entry, or every read     *)
(* fails) writes neither master-list.xlsx nor work-list.xlsx.              *)
C12_NoInputWritesNothing ==
    (/\ pc = "done"
     /\ \A i \in 1..Len(files) : ~(IsXlsx(files[i]) /\ dir[files[i]].readable))
    => (~masterWritten /\ ~workWritten)

(* C13: when the listing of the directory fails, the run reaches the       *)
(* branch that reports 'Error reading directory', stops there and has      *)
(* written no output file.                                                 *)
C13_ListingFailureReported ==
    ListingFailed =>
        /\ pc = "reported"
        /\ ~masterWritten
        /\ ~workWritten
        /\ ~ENABLED NextDedup

(* C14: entries that are no .xlsx file change nothing: a first run writes  *)
(* the output files, with the contents, that a run over the enumeration    *)
(* without those entries writes.                                           *)
C14_OtherEntriesChangeNothing ==
    (pc = "done" /\ FirstRun) =>
        LET fs == SelectSeq(files, IsXlsx)
            W == ReadAll(fs, dir)
        IN  /\ masterWritten = WritesMaster(fs, dir)
            /\ masterWritten => MasterListRecords = W
            /\ workWritten
            /\ WorkListRecords = RemoveDuplicates(W)

C17_OneRowPerNode ==
    tpc \in {"flatten", "write", "expect"} =>
        LET v == visit.violations
            rows == CurrentSheetData
        IN  /\ Len(rows) = NodesBefore(v, vIndex + 1)
            /\ tpc # "flatten" => vIndex = Len(v)
            /\ \A i \in 1..vIndex : \A j \in 1..Len(v[i].nodes) :
                  LET r == rows[NodesBefore(v, i) + j]
                      node == v[i].nodes[j]
                  IN  /\ DOMAIN r = RowFields
                      /\ r.page = visit.slug
                      /\ r.device = UserAgent(visit.project)
                      /\ r.id = v[i].id
                      /\ r.impact = v[i].impact
                      /\ JoinedFrom(r.tags, v[i].tags)
                      /\ r.description = v[i].description
                      /\ r.help = v[i].help
                      /\ r.helpUrl = v[i].helpUrl
                      /\ r.html = node.html
                      /\ JoinedFrom(r.target, node.target)
                      /\ r.failureSummary = node.failureSummary

(* Two violations with two nodes each have given four rows; the third is   *)
(* the first node of the second violation, and the selectors of a node in  *)
(* a frame are joined.                                                     *)
C17_Witness ==
    /\ tpc = "write"
    /\ Len(visit.violations) = 2
    /\ visit.violations[1] = Violation(ImageAlt, <<NodeA, NodeB>>)
    /\ visit.violations[2] = Violation(HtmlLang, <<NodeB, NodeA>>)
    /\ Len(CurrentSheetData) = 4
    /\ CurrentSheetData[3].id = "html-has-lang"
    /\ CurrentSheetData[3].html = NodeB.html
    /\ CurrentSheetData[3].target = <<"#", "a", "d", ",", " ", "i", "m", "g">>
    /\ CurrentSheetData[1].tags =
          <<"c", "a", "t", ".", "t", "e", "x", "t", ",", " ",
            "w", "c", "a", "g", "2", "a">>

(* C18: two successful writes made for different (slug, project)           *)
(* combinations go to different files.                                     *)
C18_OneFilePerCombination ==
    \A i, j \in 1..Len(written) :
        (written[i].slug # written[j].slug
            \/ written[i].project # written[j].project)
        => written[i].name # written[j].name

(* C19: the name of every result file written, without its extension, is   *)
(* not empty and has no character outside [A-Za-z0-9_].                    *)
C19_SanitizedNames ==
    \A k \in 1..Len(written) :
        /\ written[k].name # <<>>
        /\ \A i \in 1..Len(written[k].name) :
              written[k].name[i] \in WordChars \cup {"_"}

(* C20: a test in which XLSX.writeFile threw ends as it would have without *)
(* the failure: the exception has not left the writer, and the test has    *)
(* failed if and only if the scan reported a violation.                    *)
C20_WriteFailureCaught ==
    (TestEnded /\ writeFailed) =>
        /\ outcome # "threw"
        /\ outcome = IF visit.violations = <<>> THEN "passed" ELSE "failed"

(* C21: when the assertion of a visit whose scan reported a violation is   *)
(* evaluated, the result file of the visit has been written with all its   *)
(* rows, unless XLSX.writeFile itself threw; and the assertion, failing,    *)
(* leaves the file as it is.                                               *)
C21_WrittenBeforeAssertion ==
    [][ (tpc = "expect" /\ tpc' = "idle" /\ visit.violations # <<>>) =>
            /\ outcome' = "failed"
            /\ written' = written
            /\ ~writeFailed =>
                  /\ OwnWrites # {}
                  /\ \E k \in OwnWrites :
                        sheet_to_json(written[k].sheet) = OwnRows
      ]_vars

(* A tfg test has failed its assertion and its file holds its three rows. *)
C21_Witness ==
    /\ suite = "tfg"
    /\ TestEnded
    /\ outcome = "failed"
    /\ ~writeFailed
    /\ OwnWrites # {}
    /\ Len(OwnRows) = 3
    /\ \A k \in OwnWrites : sheet_to_json(written[k].sheet) = OwnRows

---------------------------------------------------------------------------
(* Some row lacks one of the eleven fields of a record. *)
LacksExpected(rows) == \E k \in 1..Len(rows) : DOMAIN rows[k] # RowFields

(* C22: when a violation or node descriptor lacks one of its expected      *)
(* fields, flattening raises an error for the visit, and no record with a  *)
(* missing field is added to the record sequence or written to a result    *)
(* file.                                                                   *)
C22_MissingFieldRaises ==
    visitNo > 0 =>
        /\ ~LacksExpected(CurrentSheetData)
        /\ \A k \in 1..Len(written) :
               ~LacksExpected(sheet_to_json(written[k].sheet))
        /\ TestEnded => outcome = "threw"

(* C23: the completion message of a run reports as the master-list figure  *)
(* the number of records of the full concatenation, duplicates included,   *)
(* and as the work-list figure the number left after the removal; the two  *)
(* differ by the number of records removed.                                *)
C23_CompletionFigures ==
    (pc = "done" /\ completion # <<>>) =>
        /\ completion[1].master = Len(Working)
        /\ completion[1].work = Len(WorkListRecords)
        /\ completion[1].master - completion[1].work = Len(uniqueArray)

(* C24: in the tfg suite the startup information is printed exactly once   *)
(* per test run, also when several workers execute the tests or a test is  *)
(* run again after a failure.                                              *)
C24_StartupPrintedOnce ==
    (suite = "tfg" /\ visitNo > 0) => startupPrints = 1

(* C25: the work lists made from two orderings of the same records have    *)
(* the same number of records and the same set of keys: the work list the  *)
(* run wrote agrees in both with what detection and removal leave of any   *)
(* other ordering of the records it read.                                  *)
C25_OrderIndependent ==
    (pc = "done" /\ workWritten) =>
        \A other \in Orderings(Working) :
            /\ Len(RemoveDuplicates(other)) = Len(WorkListRecords)
            /\ SameKeys(RemoveDuplicates(other), WorkListRecords)

(* Another ordering of the records read leaves a different record to       *)
(* represent a key.                                                        *)
C25_Witness ==
    /\ pc = "done"
    /\ workWritten
    /\ Len(uniqueArray) >= 1
    /\ \E other \in Orderings(Working) :
          /\ Range(RemoveDuplicates(other)) # Range(WorkListRecords)
          /\ Len(RemoveDuplicates(other)) = Len(WorkListRecords)

(* C26: a run that was handed the master list and the work list of the     *)
(* run before it, the per-page files being what they were, writes a work   *)
(* list with as many records and the same set of keys as the work list it  *)
(* found, whatever the order of the enumeration.                           *)
C26_SecondRunSameWorkList ==
    [][ (/\ pc = "write"
         /\ pc' = "done"
         /\ {MasterList, WorkList} \subseteq Range(files)) =>
            /\ Len(sheet_to_json(dir'[WorkList].sheet)) = Len(WorkListRecords)
            /\ SameKeys(sheet_to_json(dir'[WorkList].sheet), WorkListRecords)
      ]_vars

(* A second run has read both page files, the master list and the work     *)
(* list, has removed the records read twice and has written a work list of *)
(* two records.                                                            *)
C26_Witness ==
    /\ pc = "done"
    /\ workWritten
    /\ {MasterList, WorkList, PageFileA, PageFileB} \subseteq Range(files)
    /\ Len(uniqueArray) >= 4
    /\ Len(WorkListRecords) = 2

(* How often x occurs in arr. *)
Occurrences(arr, x) == Cardinality({k \in 1..Len(arr) : arr[k] = x})

(* The positions before j, and before bound, that hold the key of j. *)
EarlierEqual(arr, j, bound) ==
    {i \in 0..(j - 1) : i < bound /\ EqualKey(At(arr, i), At(arr, j))}

(* C27: detection records a position j in indicesToDelete once for every   *)
(* earlier position that holds an equal key, so a group of k records with  *)
(* one key gives k(k-1)/2 entries and k-1 distinct positions; after the    *)
(* index de-duplication every marked position is in uniqueArray exactly    *)
(* once, and the first position of a group never is.                       *)
C27_OncePerEarlierEqual ==
    LET W == Working
    IN  /\ pc = "detect" =>
              \A j \in Positions(W) :
                  Occurrences(indicesToDelete, j)
                     = Cardinality(EarlierEqual(W, j, outerIndex))
        /\ pc \in {"filter", "sort", "splice", "write", "done"} =>
              /\ \A j \in Positions(W) :
                     Occurrences(indicesToDelete, j)
                        = Cardinality(EarlierEqual(W, j, j))
              /\ \A i \in FirstOfKey(W) :
                     LET k == Cardinality(KeyGroup(W, i))
                         entries == {e \in 1..Len(indicesToDelete) :
                                        indicesToDelete[e] \in KeyGroup(W, i)}
                     IN  /\ Cardinality(entries) = (k * (k - 1)) \div 2
                         /\ Cardinality(Range(indicesToDelete) \cap KeyGroup(W, i))
                               = k - 1
        /\ pc \in {"sort", "splice", "write", "done"} =>
              /\ Range(uniqueArray) = Range(indicesToDelete)
              /\ \A x \in Range(indicesToDelete) : Occurrences(uniqueArray, x) = 1
              /\ Range(uniqueArray) \cap FirstOfKey(W) = {}

(* Three records share a key: three entries, two positions, the index      *)
(* de-duplication done.                                                    *)
C27_Witness ==
    /\ pc = "sort"
    /\ Len(indicesToDelete) = 3
    /\ Len(uniqueArray) = 2
    /\ Cardinality(KeyGroup(Working, 0)) = 3

====
